---- MODULE Spec2Model ----
(***************************************************************************)
(* Model of the three-stage synchronisation pipeline of                    *)
(* minecraft-jars-java-descriptions: meta.py (MetaStore), jars.py          *)
(* (ArtifactStore), index.py (IndexStore) and update.py (the pipeline).    *)
(*                                                                         *)
(* Conventions.  A Python dict is an ordered map: a sequence of records    *)
(* [k |-> key, v |-> value] in insertion order.  A raised exception is the *)
(* field err = TRUE of an operation's result.  Strings are compared by     *)
(* LexRank, datetimes are integers, a sha1 of raw bytes is Sha1(bytes).    *)
(***************************************************************************)
EXTENDS Integers, Sequences, FiniteSets, TLC

(***************************************************************************)
(* Bounded domains of the upstream inputs.                                 *)
(***************************************************************************)
MaxCommits == 3

FileIds == {"a", "b"}
VersionIds == {"a", "b"}
Times == {1, 2}
Urls == {"u1", "u2"}

E1 == [sha1 |-> "H1", url |-> "u1"]
E2 == [sha1 |-> "H2", url |-> "u2"]

\* the "downloads" objects a descriptor file may carry
DownloadSets ==
    << ("client_mappings" :> E1),
       ("server" :> E1),
       ("server" :> E2),
       ("client" :> E2),
       ("client" :> E2 @@ "server" :> E1) >>

Descriptors ==
    { [id |-> i, releaseTime |-> t, downloads |-> DownloadSets[n]] :
        i \in VersionIds, t \in Times, n \in 1..Len(DownloadSets) }

\* the contents upstream gives each file: file "a" describes version "a" or
\* (released first) version "b"; file "b" re-publishes version "a"
FileDescriptors(f) ==
    { d \in Descriptors :
        IF f = "a" THEN d.id = "a" \/ d.releaseTime = 1 ELSE d.id = "a" }

(***************************************************************************)
(* meta.py constants.                                                      *)
(***************************************************************************)
JAR_NAMES == {"client", "server", "windows_server"}

(***************************************************************************)
(* Python's order on the strings that occur (str.__lt__).                  *)
(***************************************************************************)
LexRank(s) ==
    CASE s = "a" -> 1
      [] s = "b" -> 2
      [] s = "client" -> 3
      [] s = "client_mappings" -> 4
      [] s = "server" -> 5
      [] s = "windows_server" -> 6

(***************************************************************************)
(* hashlib.sha1 of a descriptor file: injective on the file's content,     *)
(* never 0 (0 stands for the empty string of MetaVersion.empty).           *)
(***************************************************************************)
DescSha1(d) ==
    LET n == CHOOSE i \in 1..Len(DownloadSets) : DownloadSets[i] = d.downloads
    IN  LexRank(d.id) + 2 * (d.releaseTime - 1) + 4 * (n - 1)

(***************************************************************************)
(* A local variable: Bind(v, F) is F(v), with v computed once.             *)
(***************************************************************************)
Bind(v, F(_)) == CHOOSE y \in { F(x) : x \in {v} } : TRUE

(***************************************************************************)
(* Ordered maps.                                                           *)
(***************************************************************************)
Keys(d) == { d[i].k : i \in 1..Len(d) }
Has(d, key) == key \in Keys(d)
IndexOf(d, key) == CHOOSE i \in 1..Len(d) : d[i].k = key
Get(d, key) == d[IndexOf(d, key)].v
\* d[key] = value: replaces in place, or appends a new key at the end
Put(d, key, value) ==
    IF Has(d, key)
    THEN [d EXCEPT ![IndexOf(d, key)].v = value]
    ELSE Append(d, [k |-> key, v |-> value])

\* the elements of a set of strings as a sequence in ascending order
RECURSIVE SortedSeq(_)
SortedSeq(S) ==
    IF S = {} THEN << >>
    ELSE LET m == CHOOSE x \in S : \A y \in S : LexRank(x) <= LexRank(y)
         IN  <<m>> \o SortedSeq(S \ {m})

(***************************************************************************)
(* sorted(..., key, reverse): a stable sort of records that carry their    *)
(* sort key in field r; with reverse the order of equal keys is kept too.  *)
(***************************************************************************)
InsertStable(sorted, e, reverse) ==
    LET before == { i \in 1..Len(sorted) :
                      IF reverse THEN sorted[i].r >= e.r ELSE sorted[i].r <= e.r }
        n == Cardinality(before)
    IN  SubSeq(sorted, 1, n) \o <<e>> \o SubSeq(sorted, n + 1, Len(sorted))

RECURSIVE StableSort(_, _)
StableSort(s, reverse) ==
    IF s = << >> THEN << >>
    ELSE InsertStable(StableSort(SubSeq(s, 1, Len(s) - 1), reverse), s[Len(s)], reverse)

\* util.sort_dict with the default key: items sorted by their key string
sort_dict(dict_in) ==
    LET keyed == [i \in 1..Len(dict_in) |->
                    [r |-> LexRank(dict_in[i].k), item |-> dict_in[i]]]
        out == StableSort(keyed, FALSE)
    IN  [i \in 1..Len(out) |-> out[i].item]

(***************************************************************************)
(* meta.py: MetaJar                                                        *)
(***************************************************************************)
MetaJar(version_id, version_file_id, version_release_time, key, sha1, url) ==
    [version_id |-> version_id, version_file_id |-> version_file_id,
     version_release_time |-> version_release_time, key |-> key,
     sha1 |-> sha1, url |-> url]

\* MetaJar.update_kwargs: the identity check runs before any assignment
\* update_kwargs with the assignments moved in front of the identity check
MetaJar_update_kwargs_late(self, arg) ==
    LET assigned == [self EXCEPT !.sha1 = arg.sha1, !.url = arg.url]
    IN  IF \/ self.version_id # arg.version_id
           \/ self.version_file_id # arg.version_file_id
           \/ self.version_release_time # arg.version_release_time
           \/ self.key # arg.key
        THEN [self |-> assigned, dirty |-> FALSE, err |-> TRUE]
        ELSE [self |-> assigned,
              dirty |-> (self.sha1 # arg.sha1) \/ (self.url # arg.url),
              err |-> FALSE]

MetaJar_update_kwargs(self, arg) ==
    IF \/ self.version_id # arg.version_id
       \/ self.version_file_id # arg.version_file_id
       \/ self.version_release_time # arg.version_release_time
       \/ self.key # arg.key
    THEN [self |-> self, dirty |-> FALSE, err |-> TRUE]
    ELSE [self |-> [self EXCEPT !.sha1 = arg.sha1, !.url = arg.url],
          dirty |-> (self.sha1 # arg.sha1) \/ (self.url # arg.url),
          err |-> FALSE]

MetaJar_update(self, meta_jar) == MetaJar_update_kwargs(self, meta_jar)

\* MetaJar.filename: f"{version_id}-{key}.{extension}"
MetaJar_filename(self, extension) == <<self.version_id, self.key, extension>>

(***************************************************************************)
(* meta.py: MetaVersion                                                    *)
(***************************************************************************)
MetaVersion_empty ==
    [id |-> "", file_id |-> "", release_time |-> 0, sha1 |-> 0, jars |-> << >>]

\* the for loop of MetaVersion.update over sorted(downloads.items())
RECURSIVE MetaVersion_update_loop(_, _, _)
MetaVersion_update_loop(self, downloads, names) ==
    IF names = << >> THEN [self |-> self, err |-> FALSE]
    ELSE LET download_name == Head(names)
             download == downloads[download_name]
             meta_jar == MetaJar(self.id, self.file_id, self.release_time,
                                 download_name, download.sha1, download.url)
         IN  IF download_name \notin JAR_NAMES
             THEN MetaVersion_update_loop(self, downloads, Tail(names))
             ELSE IF ~Has(self.jars, meta_jar.key)
             THEN MetaVersion_update_loop(
                      [self EXCEPT !.jars = Put(self.jars, meta_jar.key, meta_jar)],
                      downloads, Tail(names))
             ELSE Bind(MetaJar_update(Get(self.jars, meta_jar.key), meta_jar),
                       LAMBDA r :
                         IF r.err THEN [self |-> self, err |-> TRUE]
                         ELSE MetaVersion_update_loop(
                                  [self EXCEPT !.jars = Put(self.jars, meta_jar.key, r.self)],
                                  downloads, Tail(names)))

\* MetaVersion.update(version_json): stem is the file's name, desc its content
MetaVersion_update(self, stem, desc) ==
    IF self.sha1 = DescSha1(desc)
    THEN [self |-> self, dirty |-> FALSE, err |-> FALSE]
    ELSE LET s1 == [self EXCEPT !.id = desc.id, !.file_id = stem,
                                !.release_time = desc.releaseTime,
                                !.sha1 = DescSha1(desc)]
         IN  Bind(MetaVersion_update_loop(s1, desc.downloads,
                                          SortedSeq(DOMAIN desc.downloads)),
                  LAMBDA r :
                    IF r.err THEN [self |-> r.self, dirty |-> FALSE, err |-> TRUE]
                    ELSE [self |-> [r.self EXCEPT !.jars = sort_dict(r.self.jars)],
                          dirty |-> TRUE, err |-> FALSE])

(***************************************************************************)
(* meta.py: Meta                                                           *)
(***************************************************************************)
Meta_empty == [commit |-> 0, minecraft |-> << >>]

\* the for loop of Meta.update over the sorted descriptor files
RECURSIVE Meta_update_loop(_, _, _, _)
Meta_update_loop(minecraft, dir, files, dirty) ==
    IF files = << >> THEN [minecraft |-> minecraft, dirty |-> dirty, err |-> FALSE]
    ELSE LET stem == Head(files)
             found == { i \in 1..Len(minecraft) : minecraft[i].file_id = stem }
             list == IF found = {} THEN Append(minecraft, MetaVersion_empty)
                     ELSE minecraft
             at == IF found = {} THEN Len(list)
                   ELSE CHOOSE i \in found : \A j \in found : i <= j
         IN  Bind(MetaVersion_update(list[at], stem, dir[stem]),
                  LAMBDA r :
                    Bind([list EXCEPT ![at] = r.self],
                         LAMBDA next :
                           IF r.err
                           THEN [minecraft |-> next, dirty |-> dirty, err |-> TRUE]
                           ELSE Meta_update_loop(next, dir, Tail(files),
                                                 dirty \/ r.dirty)))

\* list.sort(key=lambda v: v.release_time, reverse=True)
SortByReleaseTime(minecraft) ==
    LET keyed == [i \in 1..Len(minecraft) |->
                    [r |-> minecraft[i].release_time, item |-> minecraft[i]]]
        out == StableSort(keyed, TRUE)
    IN  [i \in 1..Len(out) |-> out[i].item]

\* Meta.update over the descriptor directory dir (file id -> descriptor)
Meta_update(self, dir) ==
    Bind(Meta_update_loop(self.minecraft, dir, SortedSeq(DOMAIN dir), FALSE),
         LAMBDA r :
           IF r.err THEN [self |-> [self EXCEPT !.minecraft = r.minecraft],
                          dirty |-> FALSE, err |-> TRUE]
           ELSE [self |-> [self EXCEPT !.minecraft =
                              IF r.dirty THEN SortByReleaseTime(r.minecraft)
                              ELSE r.minecraft],
                 dirty |-> r.dirty, err |-> FALSE])

\* pull_and_update reporting what Meta.update reported
Meta_pull_and_update_as_update(self, repo) ==
    IF self.commit = repo.commit
    THEN [self |-> self, dirty |-> FALSE, err |-> FALSE]
    ELSE Bind(Meta_update([self EXCEPT !.commit = repo.commit], repo.files),
              LAMBDA r : [self |-> r.self, dirty |-> r.dirty /\ ~r.err, err |-> r.err])

\* Meta.pull_and_update: repo is the mirror after the pull
Meta_pull_and_update(self, repo) ==
    IF self.commit = repo.commit
    THEN [self |-> self, dirty |-> FALSE, err |-> FALSE]
    ELSE Bind(Meta_update([self EXCEPT !.commit = repo.commit], repo.files),
              LAMBDA r : [self |-> r.self, dirty |-> ~r.err, err |-> r.err])

(***************************************************************************)
(* Raw bytes.  A file's content is one of Blobs; Absent is a path that     *)
(* does not exist.  Sha1 is injective; the zip structure of each content   *)
(* is what zipfile.ZipFile sees.                                           *)
(*   J1  a plain archive                                                   *)
(*   B2  a bundle: META-INF/versions.list has one line, inner archive I2   *)
(*   BM  a bundle whose versions.list has two lines                        *)
(*   I2  the plain archive inside B2                                       *)
(*   X   bytes that are no zip container                                   *)
(***************************************************************************)
Blobs == {"J1", "B2", "BM", "I2", "X"}
Absent == "absent"
FetchError == "ERR"

Sha1(bytes) ==
    CASE bytes = "J1" -> "H1"
      [] bytes = "B2" -> "H2"
      [] bytes = "BM" -> "HM"
      [] bytes = "I2" -> "HI"
      [] bytes = "X" -> "HX"

IsZip(bytes) == bytes # "X"
\* "META-INF/versions.list" in jar_zip.namelist()
HasVersionsList(bytes) == bytes \in {"B2", "BM"}
\* len(versions_list.splitlines())
VersionsListLines(bytes) == IF bytes = "BM" THEN 2 ELSE 1
\* jar_zip.read(f"META-INF/versions/{version_path}")
InnerJar(bytes) == "I2"

\* the content the upstream servers hold at each URL
Served(url) == IF url = "u1" THEN "J1" ELSE "B2"

(***************************************************************************)
(* The collaborators' behaviour during one call: what requests.get gives   *)
(* per URL (bytes, or FetchError for a transport error), the archives on   *)
(* which mapping-io exits non-zero, and whether writing the unwrapped      *)
(* bytes fails with an I/O error.                                          *)
(***************************************************************************)
World(fetch, conv_fail, write_inner_fails) ==
    [fetch |-> fetch, conv_fail |-> conv_fail, write_inner_fails |-> write_inner_fails]

(***************************************************************************)
(* The mappings directory: file name -> content.  A file name is           *)
(* <<version_id, key, extension>>, as MetaJar.filename builds it.          *)
(***************************************************************************)
Extensions == {"jar", "bundle.jar", "tiny"}
FileNames == VersionIds \X {"client", "server"} \X Extensions
EmptyDir == [f \in FileNames |-> Absent]

\* Path.with_suffix: the last suffix replaced
with_suffix(filename, suffix) == <<filename[1], filename[2], suffix>>

(***************************************************************************)
(* jars.py: JarsJar                                                        *)
(***************************************************************************)
\* Path(MAPPINGS_DIR / filename).relative_to(DIR)
PathOf(filename) == <<"mappings", filename>>

\* what a call did to the outside world, for the properties below
Event(op, self, meta_jar) ==
    [op |-> op, file |-> self.jar_filename, url |-> meta_jar.url, sha1 |-> meta_jar.sha1]

\* JarsJar.mappingio: subprocess.call of mapping-io on jar_path -> map_path
JarsJar_mappingio(self, fs, w) ==
    IF fs[self.jar_filename] \in w.conv_fail
    THEN [fs |-> fs, err |-> TRUE]
    ELSE [fs |-> [fs EXCEPT ![self.map_filename] = fs[self.jar_filename]],
          err |-> FALSE]

\* the download condition of JarsJar.update (lines 77-83)
NeedsDownload(self, meta_jar, fs) ==
    LET jar == fs[self.jar_filename]
        bundle == fs[with_suffix(self.jar_filename, "bundle.jar")]
    IN  \/ jar = Absent
        \/ /\ meta_jar.sha1 # Sha1(jar)
           /\ (bundle = Absent \/ meta_jar.sha1 # Sha1(bundle))

\* the end of JarsJar.update with a rename that refuses to replace an existing
\* bundle-variant file
JarsJar_update_finish_rename_exclusive(self, meta_jar, fs, w, unbundled, ev) ==
    LET jar_bundle_path == with_suffix(self.jar_filename, "bundle.jar")
        renamed == [fs EXCEPT ![jar_bundle_path] = fs[self.jar_filename],
                              ![self.jar_filename] = Absent]
        fs2 == IF unbundled = Absent THEN fs
               ELSE [renamed EXCEPT ![self.jar_filename] = unbundled]
        ev2 == IF unbundled = Absent THEN ev
               ELSE Append(ev, Event("rename", self, meta_jar))
        m == JarsJar_mappingio(self, fs2, w)
        ev3 == Append(ev2, Event("convert", self, meta_jar))
    IN  IF unbundled # Absent /\ fs[jar_bundle_path] # Absent
        THEN [self |-> self, fs |-> fs, dirty |-> FALSE, err |-> TRUE,
              events |-> ev, raised |-> "write"]
        ELSE IF unbundled # Absent /\ w.write_inner_fails
        THEN [self |-> self, fs |-> renamed, dirty |-> FALSE, err |-> TRUE,
              events |-> ev2, raised |-> "write"]
        ELSE IF m.err
        THEN [self |-> self, fs |-> fs2, dirty |-> FALSE, err |-> TRUE,
              events |-> ev3, raised |-> "mapping-io"]
        ELSE [self |-> [self EXCEPT !.jar_sha1_meta = meta_jar.sha1,
                                    !.jar_sha1_local = Sha1(fs2[self.jar_filename])],
              fs |-> m.fs, dirty |-> TRUE, err |-> FALSE,
              events |-> Append(ev3, Event("done", self, meta_jar)), raised |-> ""]

\* the end of JarsJar.update with the hashes recorded before mapping-io runs
JarsJar_update_finish_hash_first(self, meta_jar, fs, w, unbundled, ev) ==
    LET jar_bundle_path == with_suffix(self.jar_filename, "bundle.jar")
        renamed == [fs EXCEPT ![jar_bundle_path] = fs[self.jar_filename],
                              ![self.jar_filename] = Absent]
        fs2 == IF unbundled = Absent THEN fs
               ELSE [renamed EXCEPT ![self.jar_filename] = unbundled]
        ev2 == IF unbundled = Absent THEN ev
               ELSE Append(ev, Event("rename", self, meta_jar))
        m == JarsJar_mappingio(self, fs2, w)
        ev3 == Append(ev2, Event("convert", self, meta_jar))
        hashed == [self EXCEPT !.jar_sha1_meta = meta_jar.sha1,
                               !.jar_sha1_local = Sha1(fs2[self.jar_filename])]
    IN  IF unbundled # Absent /\ w.write_inner_fails
        THEN [self |-> self, fs |-> renamed, dirty |-> FALSE, err |-> TRUE,
              events |-> ev2, raised |-> "write"]
        ELSE IF m.err
        THEN [self |-> hashed, fs |-> fs2, dirty |-> FALSE, err |-> TRUE,
              events |-> ev3, raised |-> "mapping-io"]
        ELSE [self |-> hashed, fs |-> m.fs, dirty |-> TRUE, err |-> FALSE,
              events |-> Append(ev3, Event("done", self, meta_jar)), raised |-> ""]

\* lines 104-117 of JarsJar.update: unwrap, convert, record the hashes
JarsJar_update_finish(self, meta_jar, fs, w, unbundled, ev) ==
    LET jar_bundle_path == with_suffix(self.jar_filename, "bundle.jar")
        renamed == [fs EXCEPT ![jar_bundle_path] = fs[self.jar_filename],
                              ![self.jar_filename] = Absent]
        fs2 == IF unbundled = Absent THEN fs
               ELSE [renamed EXCEPT ![self.jar_filename] = unbundled]
        ev2 == IF unbundled = Absent THEN ev
               ELSE Append(ev, Event("rename", self, meta_jar))
        m == JarsJar_mappingio(self, fs2, w)
        ev3 == Append(ev2, Event("convert", self, meta_jar))
    IN  IF unbundled # Absent /\ w.write_inner_fails
        THEN [self |-> self, fs |-> renamed, dirty |-> FALSE, err |-> TRUE,
              events |-> ev2, raised |-> "write"]
        ELSE IF m.err
        THEN [self |-> self, fs |-> fs2, dirty |-> FALSE, err |-> TRUE,
              events |-> ev3, raised |-> "mapping-io"]
        ELSE [self |-> [self EXCEPT !.jar_sha1_meta = meta_jar.sha1,
                                    !.jar_sha1_local = Sha1(m.fs[self.jar_filename])],
              fs |-> m.fs, dirty |-> TRUE, err |-> FALSE,
              events |-> Append(ev3, Event("done", self, meta_jar)), raised |-> ""]

\* the inspection without the check of the number of manifest lines
JarsJar_update_inspect_unchecked(self, meta_jar, fs, w, ev) ==
    LET jar == fs[self.jar_filename]
    IN  IF ~IsZip(jar)
        THEN [self |-> self, fs |-> fs, dirty |-> FALSE, err |-> TRUE, events |-> ev,
              raised |-> "zip"]
        ELSE JarsJar_update_finish(self, meta_jar, fs, w,
                 IF HasVersionsList(jar) THEN InnerJar(jar) ELSE Absent, ev)

\* lines 88-102 of JarsJar.update: open the archive, read the bundle manifest
JarsJar_update_inspect(self, meta_jar, fs, w, ev) ==
    LET jar == fs[self.jar_filename]
    IN  IF ~IsZip(jar)
        THEN [self |-> self, fs |-> fs, dirty |-> FALSE, err |-> TRUE, events |-> ev,
              raised |-> "zip"]
        ELSE IF HasVersionsList(jar) /\ VersionsListLines(jar) > 1
        THEN [self |-> self, fs |-> fs, dirty |-> FALSE, err |-> TRUE, events |-> ev,
              raised |-> "versions.list"]
        ELSE JarsJar_update_finish(self, meta_jar, fs, w,
                 IF HasVersionsList(jar) THEN InnerJar(jar) ELSE Absent, ev)

\* JarsJar.update that also proceeds when the canonical file no longer has the
\* recorded local hash
JarsJar_update_file_gated(self, meta_jar, fs, w) ==
    IF /\ meta_jar.sha1 = self.jar_sha1_meta
       /\ fs[self.jar_filename] # Absent
       /\ Sha1(fs[self.jar_filename]) = self.jar_sha1_local
    THEN [self |-> self, fs |-> fs, dirty |-> FALSE, err |-> FALSE, events |-> << >>,
          raised |-> ""]
    ELSE IF NeedsDownload(self, meta_jar, fs)
    THEN IF w.fetch[meta_jar.url] = FetchError
         THEN [self |-> self, fs |-> fs, dirty |-> FALSE, err |-> TRUE,
               events |-> <<Event("fetch", self, meta_jar)>>, raised |-> "requests"]
         ELSE JarsJar_update_inspect(self, meta_jar,
                  [fs EXCEPT ![self.jar_filename] = w.fetch[meta_jar.url]], w,
                  <<Event("fetch", self, meta_jar)>>)
    ELSE JarsJar_update_inspect(self, meta_jar, fs, w, << >>)

\* JarsJar.update without the comparison of the recorded hash
JarsJar_update_ungated(self, meta_jar, fs, w) ==
    IF NeedsDownload(self, meta_jar, fs)
    THEN IF w.fetch[meta_jar.url] = FetchError
         THEN [self |-> self, fs |-> fs, dirty |-> FALSE, err |-> TRUE,
               events |-> <<Event("fetch", self, meta_jar)>>, raised |-> "requests"]
         ELSE JarsJar_update_inspect(self, meta_jar,
                  [fs EXCEPT ![self.jar_filename] = w.fetch[meta_jar.url]], w,
                  <<Event("fetch", self, meta_jar)>>)
    ELSE JarsJar_update_inspect(self, meta_jar, fs, w, << >>)

\* JarsJar.update(meta_jar)
JarsJar_update(self, meta_jar, fs, w) ==
    IF meta_jar.sha1 = self.jar_sha1_meta
    THEN [self |-> self, fs |-> fs, dirty |-> FALSE, err |-> FALSE, events |-> << >>,
          raised |-> ""]
    ELSE IF NeedsDownload(self, meta_jar, fs)
    THEN IF w.fetch[meta_jar.url] = FetchError
         THEN [self |-> self, fs |-> fs, dirty |-> FALSE, err |-> TRUE,
               events |-> <<Event("fetch", self, meta_jar)>>, raised |-> "requests"]
         ELSE JarsJar_update_inspect(self, meta_jar,
                  [fs EXCEPT ![self.jar_filename] = w.fetch[meta_jar.url]], w,
                  <<Event("fetch", self, meta_jar)>>)
    ELSE JarsJar_update_inspect(self, meta_jar, fs, w, << >>)

\* the record JarsJar.from_meta_jar constructs (lines 55-64)
JarsJar_new(meta_jar) ==
    [version_id |-> meta_jar.version_id,
     version_file_id |-> meta_jar.version_file_id,
     version_release_time |-> meta_jar.version_release_time,
     jar_key |-> meta_jar.key,
     jar_sha1_meta |-> "",
     jar_sha1_local |-> "",
     jar_filename |-> MetaJar_filename(meta_jar, "jar"),
     map_filename |-> MetaJar_filename(meta_jar, "tiny")]

\* JarsJar.from_meta_jar(meta_jar)
JarsJar_from_meta_jar(meta_jar, fs, w) ==
    JarsJar_update(JarsJar_new(meta_jar), meta_jar, fs, w)

(***************************************************************************)
(* jars.py: Jars                                                           *)
(***************************************************************************)
Jars_empty == [versions |-> << >>]

\* Jars.all / Index.all: chain(*[version.values() for version in ...values()])
RECURSIVE AllValues(_)
AllValues(outer) ==
    IF outer = << >> THEN << >>
    ELSE [i \in 1..Len(Head(outer).v) |-> Head(outer).v[i].v] \o AllValues(Tail(outer))

\* the records a release-time lookup for `version` matches, in iteration order
ReleaseTimeMatches(all, version) ==
    { i \in 1..Len(all) :
        version = all[i].version_id \/ version = all[i].version_file_id }

\* Jars.get_version_release_time: found = FALSE is the raised exception
Jars_get_version_release_time(self, version) ==
    LET all == AllValues(self.versions)
        hits == ReleaseTimeMatches(all, version)
    IN  IF hits = {} THEN [found |-> FALSE, time |-> 0]
        ELSE [found |-> TRUE,
              time |-> all[CHOOSE i \in hits : \A j \in hits : i <= j].version_release_time]

\* sort_dict(self.versions, key=lambda i: self.get_version_release_time(i[0]),
\*           reverse=True)
Jars_sort_versions(self) ==
    LET keyed == [i \in 1..Len(self.versions) |->
                    [r |-> Jars_get_version_release_time(self, self.versions[i].k).time,
                     item |-> self.versions[i]]]
        out == StableSort(keyed, TRUE)
    IN  IF \E i \in 1..Len(self.versions) :
              ~Jars_get_version_release_time(self, self.versions[i].k).found
        THEN [self |-> self, err |-> TRUE]
        ELSE [self |-> [self EXCEPT !.versions = [i \in 1..Len(out) |-> out[i].item]],
              err |-> FALSE]

\* after a dirty JarsJar.update: self.versions[id] = sort_dict(self.versions[id])
Jars_sort_inner(inner) == sort_dict(inner)

\* the inner for loop of Jars.update over mc_version.jars.items()
RECURSIVE Jars_update_jars(_, _, _, _, _, _, _)
Jars_update_jars(self, id, items, fs, w, dirty, ev) ==
    IF items = << >>
    THEN [self |-> self, fs |-> fs, dirty |-> dirty, err |-> FALSE, events |-> ev]
    ELSE LET jar_name == Head(items).k
             meta_jar == Head(items).v
             inner == Get(self.versions, id)
         IN  IF ~Has(inner, jar_name)
             THEN Bind(JarsJar_from_meta_jar(meta_jar, fs, w),
                       LAMBDA r :
                         IF r.err
                         THEN [self |-> self, fs |-> r.fs, dirty |-> dirty, err |-> TRUE,
                               events |-> ev \o r.events]
                         ELSE Jars_update_jars(
                                  [self EXCEPT !.versions =
                                      Put(self.versions, id, Put(inner, jar_name, r.self))],
                                  id, Tail(items), r.fs, w, TRUE, ev \o r.events))
             ELSE Bind(JarsJar_update(Get(inner, jar_name), meta_jar, fs, w),
                       LAMBDA r :
                         LET updated == Put(inner, jar_name, r.self)
                         IN  IF r.err
                             THEN [self |-> self, fs |-> r.fs, dirty |-> dirty,
                                   err |-> TRUE, events |-> ev \o r.events]
                             ELSE Jars_update_jars(
                                      [self EXCEPT !.versions =
                                          Put(self.versions, id,
                                              IF r.dirty THEN Jars_sort_inner(updated)
                                              ELSE updated)],
                                      id, Tail(items), r.fs, w, dirty \/ r.dirty,
                                      ev \o r.events))

\* the outer for loop of Jars.update over reversed(meta.minecraft)
RECURSIVE Jars_update_versions(_, _, _, _, _, _)
Jars_update_versions(self, mc_versions, fs, w, dirty, ev) ==
    IF mc_versions = << >>
    THEN [self |-> self, fs |-> fs, dirty |-> dirty, err |-> FALSE, events |-> ev]
    ELSE LET mc_version == Head(mc_versions)
             fresh == ~Has(self.versions, mc_version.id)
             s1 == IF fresh
                   THEN [self EXCEPT !.versions = Put(self.versions, mc_version.id, << >>)]
                   ELSE self
         IN  Bind(Jars_update_jars(s1, mc_version.id, mc_version.jars, fs, w,
                                   dirty \/ fresh, ev),
                  LAMBDA r :
                    IF r.err THEN r
                    ELSE Jars_update_versions(r.self, Tail(mc_versions), r.fs, w,
                                              r.dirty, r.events))

\* reversed(list)
RECURSIVE reversed(_)
reversed(s) == IF s = << >> THEN << >> ELSE Append(reversed(Tail(s)), Head(s))

\* Jars.update: meta is Meta.load(), fs the mappings directory
Jars_update(self, meta, fs, w) ==
    Bind(Jars_update_versions(self, reversed(meta.minecraft), fs, w, FALSE, << >>),
         LAMBDA r :
           IF r.err \/ ~r.dirty THEN r
           ELSE Bind(Jars_sort_versions(r.self),
                     LAMBDA sorted :
                       [self |-> sorted.self, fs |-> r.fs, dirty |-> ~sorted.err,
                        err |-> sorted.err, events |-> r.events]))

(***************************************************************************)
(* index.py: IndexMapping, Index                                           *)
(***************************************************************************)
BASE_URL == "https://jackassmc.github.io/minecraft-jars-java-descriptions"

\* JarsJar.map_path
map_path(jar) == PathOf(jar.map_filename)

\* f"{BASE_URL}/{jar.map_path}"
UrlOf(path) == <<BASE_URL, "/", path>>

\* IndexMapping.from_jar
IndexMapping_from_jar(jar) ==
    [version_id |-> jar.version_id,
     version_file_id |-> jar.version_file_id,
     version_release_time |-> jar.version_release_time,
     jar_key |-> jar.jar_key,
     jar_sha1_meta |-> jar.jar_sha1_meta,
     path |-> map_path(jar),
     url |-> UrlOf(map_path(jar))]

\* IndexMapping.update: the identity check runs before any assignment
IndexMapping_update(self, jar) ==
    IF \/ self.version_id # jar.version_id
       \/ self.version_file_id # jar.version_file_id
       \/ self.version_release_time # jar.version_release_time
       \/ self.jar_key # jar.jar_key
    THEN [self |-> self, dirty |-> FALSE, err |-> TRUE]
    ELSE [self |-> [self EXCEPT !.jar_sha1_meta = jar.jar_sha1_meta,
                                !.path = map_path(jar),
                                !.url = UrlOf(map_path(jar))],
          dirty |-> \/ self.jar_sha1_meta # jar.jar_sha1_meta
                    \/ self.path # map_path(jar)
                    \/ self.url # UrlOf(map_path(jar)),
          err |-> FALSE]

Index_empty == [timestamp |-> 0, mappings |-> << >>]

\* Index.get_version_release_time
Index_get_version_release_time(self, version) ==
    LET all == AllValues(self.mappings)
        hits == ReleaseTimeMatches(all, version)
    IN  IF hits = {} THEN [found |-> FALSE, time |-> 0]
        ELSE [found |-> TRUE,
              time |-> all[CHOOSE i \in hits : \A j \in hits : i <= j].version_release_time]

\* sort_dict(self.mappings, key=lambda i: self.get_version_release_time(i[0]),
\*           reverse=True)
Index_sort_mappings(self) ==
    LET keyed == [i \in 1..Len(self.mappings) |->
                    [r |-> Index_get_version_release_time(self, self.mappings[i].k).time,
                     item |-> self.mappings[i]]]
        out == StableSort(keyed, TRUE)
    IN  IF \E i \in 1..Len(self.mappings) :
              ~Index_get_version_release_time(self, self.mappings[i].k).found
        THEN [self |-> self, err |-> TRUE]
        ELSE [self |-> [self EXCEPT !.mappings = [i \in 1..Len(out) |-> out[i].item]],
              err |-> FALSE]

\* after a dirty IndexMapping.update: sort_dict(self.mappings[jar.version_id])
Index_sort_inner(inner) == sort_dict(inner)

\* the for loop of Index.update over Jars.load(jars_json).all
RECURSIVE Index_update_loop(_, _, _)
Index_update_loop(self, jars, dirty) ==
    IF jars = << >> THEN [self |-> self, dirty |-> dirty, err |-> FALSE]
    ELSE LET jar == Head(jars)
             s1 == IF Has(self.mappings, jar.version_id) THEN self
                   ELSE [self EXCEPT !.mappings = Put(self.mappings, jar.version_id, << >>)]
             inner == Get(s1.mappings, jar.version_id)
         IN  IF ~Has(inner, jar.jar_key)
             THEN Index_update_loop(
                      [s1 EXCEPT !.mappings =
                          Put(s1.mappings, jar.version_id,
                              Put(inner, jar.jar_key, IndexMapping_from_jar(jar)))],
                      Tail(jars), TRUE)
             ELSE Bind(IndexMapping_update(Get(inner, jar.jar_key), jar),
                       LAMBDA r :
                         LET updated == Put(inner, jar.jar_key, r.self)
                         IN  IF r.err THEN [self |-> s1, dirty |-> dirty, err |-> TRUE]
                             ELSE Index_update_loop(
                                      [s1 EXCEPT !.mappings =
                                          Put(s1.mappings, jar.version_id,
                                              IF r.dirty THEN Index_sort_inner(updated)
                                              ELSE updated)],
                                      Tail(jars), dirty \/ r.dirty))

\* Index.update: jars is Jars.load(jars_json)
Index_update(self, jars) ==
    Bind(Index_update_loop(self, AllValues(jars.versions), FALSE),
         LAMBDA r :
           IF r.err \/ ~r.dirty THEN r
           ELSE Bind(Index_sort_mappings(r.self),
                     LAMBDA sorted :
                       [self |-> sorted.self, dirty |-> ~sorted.err,
                        err |-> sorted.err]))

(***************************************************************************)
(* update.py: the pipeline run, one step per call of update().             *)
(***************************************************************************)
\* a pipeline whose stages save only after the downstream stage has run
update_next_unsaved(stage, dirty) ==
    CASE stage = "Meta.pull_and_update" -> IF dirty THEN "Jars.load" ELSE "exit"
      [] stage = "meta.save" -> "exit"
      [] stage = "Jars.load" -> "jars.update"
      [] stage = "jars.update" -> IF dirty THEN "Index.load" ELSE "meta.save"
      [] stage = "jars.save" -> "meta.save"
      [] stage = "Index.load" -> "index.update"
      [] stage = "index.update" -> IF dirty THEN "index.save" ELSE "jars.save"
      [] stage = "index.save" -> "jars.save"

\* where update() goes after a stage's update call returned `dirty`
update_next(stage, dirty) ==
    CASE stage = "Meta.pull_and_update" -> IF dirty THEN "meta.save" ELSE "exit"
      [] stage = "meta.save" -> "Jars.load"
      [] stage = "Jars.load" -> "jars.update"
      [] stage = "jars.update" -> IF dirty THEN "jars.save" ELSE "exit"
      [] stage = "jars.save" -> "Index.load"
      [] stage = "Index.load" -> "index.update"
      [] stage = "index.update" -> IF dirty THEN "index.save" ELSE "exit"
      [] stage = "index.save" -> "exit"

\* one call of update(): what was called, and whether it returned dirty (TRUE for
\* a load or a save, FALSE for a call that raised)
Call(name, ret) == [call |-> name, ret |-> ret]

\* datetime.now() at Index.save
Timestamps == {1}

\* the collaborators during a pipeline run: every URL serves its content or
\* fails with a transport error; mapping-io and the disk work
PipelineWorlds ==
    { World(fetch, {}, FALSE) :
        fetch \in { f \in [Urls -> Blobs \cup {FetchError}] :
                      \A u \in Urls : f[u] \in {Served(u), FetchError} } }
NoWorld == World([u \in Urls |-> FetchError], {}, FALSE)

VARIABLES
    upstream,     \* origin/master of the descriptor repository: commit, files
    meta_json,    \* meta.json
    jars_json,    \* jars.json
    index_json,   \* index.json
    fs,           \* the mappings directory
    pc,           \* the call update() makes next; "idle", "exit", "aborted" between runs
    meta,         \* the Meta object of the run
    jars,         \* the Jars object of the run
    index,        \* the Index object of the run
    trace,        \* the calls this run has made, in order
    log,          \* the fetches, renames and conversions of this run
    world,        \* the collaborators' behaviour during the run's Jars.update
    start,        \* the persisted stores and descriptors when this run began
    prev,         \* how the previous run ended and what it completed
    u_meta_jar,   \* a MetaJar, for the calls made on one record
    u_mapping,    \* an IndexMapping, for the calls made on one record
    u_jar,        \* a persisted JarsJar (NoRecord before the first save)
    u_fs,         \* the files of that JarsJar in the mappings directory
    u_last        \* the last call made on one record: its inputs and result

pipe_vars == <<upstream, meta_json, jars_json, index_json, fs, pc, meta, jars, index,
               trace, log, world, start, prev>>
unit_vars == <<u_meta_jar, u_mapping, u_jar, u_fs, u_last>>
vars == <<pipe_vars, unit_vars>>

Snapshot == [meta |-> meta_json, jars |-> jars_json, index |-> index_json]
NoSnapshot == [meta |-> Meta_empty, jars |-> Jars_empty, index |-> Index_empty]

\* the artifacts (file, MetaRecord hash) whose JarsJar.update ran to its end
Completed(events) ==
    { [file |-> events[i].file, sha1 |-> events[i].sha1] :
        i \in { j \in 1..Len(events) : events[j].op = "done" } }

PipeInit ==
    /\ upstream = [commit |-> 1, files |-> [f \in {} |-> 0]]
    /\ meta_json = Meta_empty
    /\ jars_json = Jars_empty
    /\ index_json = Index_empty
    /\ fs = EmptyDir
    /\ pc = "idle"
    /\ meta = Meta_empty
    /\ jars = Jars_empty
    /\ index = Index_empty
    /\ trace = << >>
    /\ log = << >>
    /\ world = NoWorld
    /\ start = NoSnapshot
    /\ prev = [outcome |-> "none", completed |-> {}]

\* the record-level variables, unused by the pipeline
NoCall == [op |-> "none"]
UnitIdle ==
    /\ u_meta_jar = MetaJar("", "", 0, "", "", "")
    /\ u_mapping = MetaJar("", "", 0, "", "", "")
    /\ u_jar = MetaJar("", "", 0, "", "", "")
    /\ u_fs = << >>
    /\ u_last = NoCall

Init == PipeInit /\ UnitIdle

\* upstream publishes a commit that adds or amends one descriptor file
Commit ==
    /\ pc = "idle"
    /\ upstream.commit < MaxCommits
    /\ \E f \in FileIds : \E d \in FileDescriptors(f) :
         upstream' = [commit |-> upstream.commit + 1,
                      files |-> [g \in DOMAIN upstream.files \cup {f} |->
                                   IF g = f THEN d ELSE upstream.files[g]]]
    /\ UNCHANGED <<meta_json, jars_json, index_json, fs, pc, meta, jars, index,
                   trace, log, world, start, prev>>
    /\ UNCHANGED unit_vars

\* update.py line 18: meta = Meta.load()
MetaLoad ==
    /\ pc = "idle"
    /\ meta' = meta_json
    /\ pc' = "Meta.pull_and_update"
    /\ trace' = <<Call("Meta.load", TRUE)>>
    /\ start' = Snapshot
    /\ UNCHANGED <<upstream, meta_json, jars_json, index_json, fs, jars, index,
                   log, world, prev>>
    /\ UNCHANGED unit_vars

\* update.py line 19: meta.pull_and_update()
MetaPullAndUpdate ==
    /\ pc = "Meta.pull_and_update"
    /\ \E r \in {Meta_pull_and_update(meta, upstream)} :
           /\ meta' = r.self
           /\ pc' = IF r.err THEN "aborted" ELSE update_next(pc, r.dirty)
           /\ trace' = Append(trace, Call(pc, r.dirty /\ ~r.err))
    /\ UNCHANGED <<upstream, meta_json, jars_json, index_json, fs, jars, index,
                   log, world, start, prev>>
    /\ UNCHANGED unit_vars

\* update.py line 20: meta.save()
MetaSave ==
    /\ pc = "meta.save"
    /\ meta_json' = meta
    /\ pc' = update_next(pc, TRUE)
    /\ trace' = Append(trace, Call(pc, TRUE))
    /\ UNCHANGED <<upstream, jars_json, index_json, fs, meta, jars, index,
                   log, world, start, prev>>
    /\ UNCHANGED unit_vars

\* update.py line 23: jars = Jars.load()
JarsLoad ==
    /\ pc = "Jars.load"
    /\ jars' = jars_json
    /\ pc' = update_next(pc, TRUE)
    /\ trace' = Append(trace, Call(pc, TRUE))
    /\ UNCHANGED <<upstream, meta_json, jars_json, index_json, fs, meta, index,
                   log, world, start, prev>>
    /\ UNCHANGED unit_vars

\* update.py line 24: jars.update(), which reads meta.json itself; the
\* collaborators behave as one of worlds
JarsUpdateIn(worlds) ==
    /\ pc = "jars.update"
    /\ \E w \in worlds :
         \E r \in {Jars_update(jars, meta_json, fs, w)} :
             /\ jars' = r.self
             /\ fs' = r.fs
             /\ log' = r.events
             /\ world' = w
             /\ pc' = IF r.err THEN "aborted" ELSE update_next(pc, r.dirty)
             /\ trace' = Append(trace, Call(pc, r.dirty /\ ~r.err))
    /\ UNCHANGED <<upstream, meta_json, jars_json, index_json, meta, index,
                   start, prev>>
    /\ UNCHANGED unit_vars

JarsUpdate == JarsUpdateIn(PipelineWorlds)

\* update.py line 25: jars.save()
JarsSave ==
    /\ pc = "jars.save"
    /\ jars_json' = jars
    /\ pc' = update_next(pc, TRUE)
    /\ trace' = Append(trace, Call(pc, TRUE))
    /\ UNCHANGED <<upstream, meta_json, index_json, fs, meta, jars, index,
                   log, world, start, prev>>
    /\ UNCHANGED unit_vars

\* update.py line 28: index = Index.load()
IndexLoad ==
    /\ pc = "Index.load"
    /\ index' = index_json
    /\ pc' = update_next(pc, TRUE)
    /\ trace' = Append(trace, Call(pc, TRUE))
    /\ UNCHANGED <<upstream, meta_json, jars_json, index_json, fs, meta, jars,
                   log, world, start, prev>>
    /\ UNCHANGED unit_vars

\* update.py line 29: index.update(), which reads jars.json itself
IndexUpdate ==
    /\ pc = "index.update"
    /\ \E r \in {Index_update(index, jars_json)} :
           /\ index' = r.self
           /\ pc' = IF r.err THEN "aborted" ELSE update_next(pc, r.dirty)
           /\ trace' = Append(trace, Call(pc, r.dirty /\ ~r.err))
    /\ UNCHANGED <<upstream, meta_json, jars_json, index_json, fs, meta, jars,
                   log, world, start, prev>>
    /\ UNCHANGED unit_vars

\* update.py line 30: index.save(), which stamps the current time
IndexSave ==
    /\ pc = "index.save"
    /\ \E now \in Timestamps : index_json' = [index EXCEPT !.timestamp = now]
    /\ pc' = update_next(pc, TRUE)
    /\ trace' = Append(trace, Call(pc, TRUE))
    /\ UNCHANGED <<upstream, meta_json, jars_json, fs, meta, jars, index,
                   log, world, start, prev>>
    /\ UNCHANGED unit_vars

\* the process ends (update.py returns, or the exception ends it); its objects
\* are gone, the files stay
Exit ==
    /\ pc \in {"exit", "aborted"}
    /\ pc' = "idle"
    /\ prev' = [outcome |-> pc,
                completed |-> IF pc = "aborted" THEN Completed(log) ELSE {}]
    /\ meta' = Meta_empty
    /\ jars' = Jars_empty
    /\ index' = Index_empty
    /\ trace' = << >>
    /\ log' = << >>
    /\ world' = NoWorld
    /\ start' = NoSnapshot
    /\ UNCHANGED <<upstream, meta_json, jars_json, index_json, fs>>
    /\ UNCHANGED unit_vars

Next ==
    \/ Commit
    \/ MetaLoad
    \/ MetaPullAndUpdate
    \/ MetaSave
    \/ JarsLoad
    \/ JarsUpdate
    \/ JarsSave
    \/ IndexLoad
    \/ IndexUpdate
    \/ IndexSave
    \/ Exit

Spec == Init /\ [][Next]_vars

(***************************************************************************)
(* Version a published under the files a and b, each amended again and     *)
(* again: a file declares the server archive as E1 or as E2.  Here         *)
(* mapping-io may also exit non-zero, so a run can abort after the archive *)
(* was fetched.                                                            *)
(***************************************************************************)
MaxAmendments == 5

ServerDescriptors ==
    { d \in Descriptors :
        /\ d.id = "a" /\ d.releaseTime = 1
        /\ d.downloads \in {DownloadSets[2], DownloadSets[3]} }

FlakyWorlds ==
    { World(fetch, cf, FALSE) :
        fetch \in { f \in [Urls -> Blobs \cup {FetchError}] :
                      \A u \in Urls : f[u] \in {Served(u), FetchError} },
        cf \in {{}, Blobs} }

\* upstream publishes a commit that writes one of the two descriptor files
Amend ==
    /\ pc = "idle"
    /\ upstream.commit < MaxAmendments
    /\ \E f \in FileIds : \E d \in ServerDescriptors :
         upstream' = [commit |-> upstream.commit + 1,
                      files |-> [g \in DOMAIN upstream.files \cup {f} |->
                                   IF g = f THEN d ELSE upstream.files[g]]]
    /\ UNCHANGED <<meta_json, jars_json, index_json, fs, pc, meta, jars, index,
                   trace, log, world, start, prev>>
    /\ UNCHANGED unit_vars

JarsUpdateFlaky == JarsUpdateIn(FlakyWorlds)

AmendNext ==
    \/ Amend
    \/ MetaLoad
    \/ MetaPullAndUpdate
    \/ MetaSave
    \/ JarsLoad
    \/ JarsUpdateFlaky
    \/ JarsSave
    \/ IndexLoad
    \/ IndexUpdate
    \/ IndexSave
    \/ Exit

SpecAmend == Init /\ [][AmendNext]_vars

(***************************************************************************)
(* A descriptor file whose version id changes: file a describes version a  *)
(* or version b, file b describes version a, each with one server or one   *)
(* client archive, over enough commits for a file to be renamed and the    *)
(* old id to be published again.                                           *)
(***************************************************************************)
MaxRenames == 4

RenameDescriptors(f) ==
    { d \in FileDescriptors(f) :
        /\ d.releaseTime = 1
        /\ d.downloads \in {DownloadSets[2], DownloadSets[3], DownloadSets[4]} }

\* upstream publishes a commit that writes one descriptor file
Rename ==
    /\ pc = "idle"
    /\ upstream.commit < MaxRenames
    /\ \E f \in FileIds : \E d \in RenameDescriptors(f) :
         upstream' = [commit |-> upstream.commit + 1,
                      files |-> [g \in DOMAIN upstream.files \cup {f} |->
                                   IF g = f THEN d ELSE upstream.files[g]]]
    /\ UNCHANGED <<meta_json, jars_json, index_json, fs, pc, meta, jars, index,
                   trace, log, world, start, prev>>
    /\ UNCHANGED unit_vars

RenameNext ==
    \/ Rename
    \/ MetaLoad
    \/ MetaPullAndUpdate
    \/ MetaSave
    \/ JarsLoad
    \/ JarsUpdate
    \/ JarsSave
    \/ IndexLoad
    \/ IndexUpdate
    \/ IndexSave
    \/ Exit

SpecRename == Init /\ [][RenameNext]_vars

(***************************************************************************)
(* The record-level reconciles called on their own: MetaJar.update and     *)
(* IndexMapping.update on one record each, with every argument of the      *)
(* bounded domains.                                                        *)
(***************************************************************************)
UnitEntries == {[sha1 |-> "H1", url |-> "u1"], [sha1 |-> "H2", url |-> "u1"],
                [sha1 |-> "H2", url |-> "u2"]}
UnitMetaJars ==
    { MetaJar(i, f, t, k, e.sha1, e.url) :
        i \in VersionIds, f \in FileIds, t \in Times, k \in {"client", "server"},
        e \in UnitEntries }

\* the ArtifactRecord of a MetaRecord once materialized
JarOf(meta_jar) ==
    [JarsJar_new(meta_jar) EXCEPT !.jar_sha1_meta = meta_jar.sha1,
                                  !.jar_sha1_local = meta_jar.sha1]

RecordInit ==
    /\ PipeInit
    /\ u_meta_jar \in UnitMetaJars
    /\ u_mapping = IndexMapping_from_jar(JarOf(u_meta_jar))
    /\ u_jar = MetaJar("", "", 0, "", "", "")
    /\ u_fs = << >>
    /\ u_last = NoCall

\* meta_jar.update(arg)
MetaJarUpdate ==
    /\ \E arg \in UnitMetaJars :
         LET r == MetaJar_update(u_meta_jar, arg)
         IN  /\ u_meta_jar' = r.self
             /\ u_last' = [op |-> "MetaJar.update", before |-> u_meta_jar,
                           arg_identity |-> <<arg.version_id, arg.version_file_id,
                                              arg.version_release_time, arg.key>>,
                           arg_sha1 |-> arg.sha1, err |-> r.err, dirty |-> r.dirty]
    /\ UNCHANGED <<u_mapping, u_jar, u_fs>>
    /\ UNCHANGED pipe_vars

\* mapping.update(jar)
IndexMappingUpdate ==
    /\ \E arg \in UnitMetaJars :
         LET jar == JarOf(arg)
             r == IndexMapping_update(u_mapping, jar)
         IN  /\ u_mapping' = r.self
             /\ u_last' = [op |-> "IndexMapping.update", before |-> u_mapping,
                           arg_identity |-> <<jar.version_id, jar.version_file_id,
                                              jar.version_release_time, jar.jar_key>>,
                           arg_sha1 |-> jar.jar_sha1_meta, err |-> r.err,
                           dirty |-> r.dirty]
    /\ UNCHANGED <<u_meta_jar, u_jar, u_fs>>
    /\ UNCHANGED pipe_vars

RecordNext ==
    \/ MetaJarUpdate
    \/ IndexMappingUpdate

SpecRecord == RecordInit /\ [][RecordNext]_vars

(***************************************************************************)
(* JarsJar.update called on the artifact a-server: every MetaRecord hash,   *)
(* every answer of the fetcher, mapping-io and the disk.  A call's record   *)
(* is persisted (jars.save ran) or lost (the run aborted later).           *)
(***************************************************************************)
UnitMetaRecords == { MetaJar("a", "a", 1, "server", h, "u1") : h \in {"H1", "H2", "HM"} }
UnitWorlds ==
    { World([u \in Urls |-> b], cf, wf) :
        b \in Blobs \cup {FetchError}, cf \in {{}, Blobs}, wf \in BOOLEAN }
UnitFiles == { <<"a", "server", e>> : e \in Extensions }
NoRecord == [version_id |-> ""]

JarInit ==
    /\ PipeInit
    /\ u_meta_jar = MetaJar("", "", 0, "", "", "")
    /\ u_mapping = MetaJar("", "", 0, "", "", "")
    /\ u_jar = NoRecord
    /\ u_fs = [f \in UnitFiles |-> Absent]
    /\ u_last = NoCall

JarCall(op, before, m, w, r) ==
    [op |-> op, before |-> before, fs_before |-> u_fs, meta_jar |-> m, w |-> w, r |-> r]

\* Jars.update line 173: no record is persisted yet
JarsJarFromMetaJar ==
    /\ u_jar = NoRecord
    /\ \E m \in UnitMetaRecords, w \in UnitWorlds, saved \in BOOLEAN :
         LET r == JarsJar_from_meta_jar(m, u_fs, w)
         IN  /\ u_fs' = r.fs
             /\ u_jar' = IF ~r.err /\ saved THEN r.self ELSE u_jar
             /\ u_last' = JarCall("JarsJar.from_meta_jar", JarsJar_new(m), m, w, r)
    /\ UNCHANGED <<u_meta_jar, u_mapping>>
    /\ UNCHANGED pipe_vars

\* Jars.update line 179: the persisted record is reconciled
JarsJarUpdate ==
    /\ u_jar # NoRecord
    /\ \E m \in UnitMetaRecords, w \in UnitWorlds, saved \in BOOLEAN :
         LET r == JarsJar_update(u_jar, m, u_fs, w)
         IN  /\ u_fs' = r.fs
             /\ u_jar' = IF ~r.err /\ saved THEN r.self ELSE u_jar
             /\ u_last' = JarCall("JarsJar.update", u_jar, m, w, r)
    /\ UNCHANGED <<u_meta_jar, u_mapping>>
    /\ UNCHANGED pipe_vars

JarNext ==
    \/ JarsJarFromMetaJar
    \/ JarsJarUpdate

SpecJar == JarInit /\ [][JarNext]_vars

(***************************************************************************)
(* Properties.                                                             *)
(***************************************************************************)
\* the call `name` is the last one this run made, and it returned without error
Returned(name) ==
    /\ trace # << >>
    /\ trace[Len(trace)].call = name
    /\ pc # "aborted"

\* the positions of this run's trace at which `name` was called
Calls(name) == { i \in 1..Len(trace) : trace[i].call = name }

Meta_update_idempotent ==
    (Returned("Meta.pull_and_update") /\ trace[Len(trace)].ret) =>
        LET r == Meta_update(meta, upstream.files)
        IN  ~r.err /\ ~r.dirty /\ r.self = meta

Jars_update_idempotent ==
    Returned("jars.update") =>
        LET r == Jars_update(jars, meta_json, fs, world)
        IN  ~r.err /\ ~r.dirty /\ r.self = jars /\ r.fs = fs /\ r.events = << >>

Index_update_idempotent ==
    Returned("index.update") =>
        LET r == Index_update(index, jars_json)
        IN  ~r.err /\ ~r.dirty /\ r.self = index

\* C1: each of Meta.update, Jars.update and Index.update is idempotent: after a
\* call that returned without error, a second call on the same inputs (the same
\* descriptor files, meta.json, jars.json and fetcher) returns not-dirty, fetches
\* and converts nothing and leaves every record and every map order unchanged.
C1_ReconcileAllIdempotent ==
    /\ Meta_update_idempotent
    /\ Jars_update_idempotent
    /\ Index_update_idempotent
\* the MetaRecords of a MetaStore, each with the id and file id of its version
MetaRecords(m) ==
    UNION { { [id |-> m.minecraft[i].id, file_id |-> m.minecraft[i].file_id,
               key |-> m.minecraft[i].jars[j].k, jar |-> m.minecraft[i].jars[j].v] :
                j \in 1..Len(m.minecraft[i].jars) } :
            i \in 1..Len(m.minecraft) }

\* the ArtifactRecord that Jars.update reconciles MetaRecord r against exists in
\* store j and records r's hash
Materialized(j, r) ==
    /\ Has(j.versions, r.id)
    /\ Has(Get(j.versions, r.id), r.key)
    /\ Get(Get(j.versions, r.id), r.key).jar_sha1_meta = r.jar.sha1

\* the IndexRecord of that ArtifactRecord exists in store x and mirrors r's hash
Indexed(j, x, r) ==
    LET jar == Get(Get(j.versions, r.id), r.key)
    IN  /\ Has(x.mappings, jar.version_id)
        /\ Has(Get(x.mappings, jar.version_id), jar.jar_key)
        /\ Get(Get(x.mappings, jar.version_id), jar.jar_key).jar_sha1_meta = r.jar.sha1

Converged ==
    \A r \in MetaRecords(meta_json) :
        Materialized(jars_json, r) /\ Indexed(jars_json, index_json, r)

\* C2: the run that follows an aborted run and completes without error ends with
\* every MetaRecord of meta.json materialized: jars.json holds an ArtifactRecord
\* with the MetaRecord's hash and index.json an IndexRecord mirroring it.
C2_NextRunCompletesTheWork ==
    (pc = "exit" /\ prev.outcome = "aborted") => Converged

\* C3: in the run that follows an aborted run, no artifact whose fetch and
\* conversion completed in the aborted run (for the same MetaRecord hash) is
\* fetched or converted again.
C3_NoDuplicatedWork ==
    prev.outcome = "aborted" =>
        \A i \in 1..Len(log) :
            log[i].op \in {"fetch", "convert"} =>
                [file |-> log[i].file, sha1 |-> log[i].sha1] \notin prev.completed
\* some call `name` precedes position i of this run's trace
Before(name, i) == \E j \in Calls(name) : j < i
\* some call `name` that returned dirty precedes position i
DirtyBefore(name, i) == \E j \in Calls(name) : j < i /\ trace[j].ret

\* C4: Jars.update runs only after Meta.pull_and_update returned dirty and
\* Index.update only after Jars.update returned dirty; meta.json is saved before
\* the ArtifactStore is loaded or updated and jars.json before the IndexStore is,
\* so a stage reads its upstream as the upstream stage of this run left it.
C4_StageGatingAndOrder ==
    /\ \A i \in Calls("Jars.load") \cup Calls("jars.update") :
           DirtyBefore("Meta.pull_and_update", i) /\ Before("meta.save", i)
    /\ \A i \in Calls("Index.load") \cup Calls("index.update") :
           DirtyBefore("jars.update", i) /\ Before("jars.save", i)
    /\ pc \in {"Jars.load", "jars.update"} => meta_json = meta
    /\ pc \in {"Index.load", "index.update"} => jars_json = jars

\* a run went through all three stages
C4_Witness ==
    /\ pc = "exit"
    /\ Calls("index.update") # {}
    /\ Calls("index.save") # {}
\* the versions of the MetaStore this run loaded whose descriptor file still has
\* the content hash the MetaStore recorded
UnchangedVersions ==
    { i \in 1..Len(start.meta.minecraft) :
        LET v == start.meta.minecraft[i]
        IN  /\ v.file_id \in DOMAIN upstream.files
            /\ DescSha1(upstream.files[v.file_id]) = v.sha1 }

\* the MetaRecords of one version of the MetaStore this run loaded
VersionRecords(i) ==
    { r \in MetaRecords(start.meta) : r.file_id = start.meta.minecraft[i].file_id }

\* the record under (id, key) of a nested map, as a sequence of at most one record
RecordAt(outer, id, key) ==
    IF Has(outer, id) /\ Has(Get(outer, id), key)
    THEN <<Get(Get(outer, id), key)>> ELSE << >>

\* the version entries of MetaStore m filed under file_id
VersionsOf(m, file_id) ==
    { m.minecraft[i] : i \in { j \in 1..Len(m.minecraft) : m.minecraft[j].file_id = file_id } }

\* this run fetched or converted nothing for MetaRecord r and changed none of the
\* Meta, Artifact and Index records of r, in memory or on disk
Untouched(r) ==
    /\ \A n \in 1..Len(log) :
           log[n].op \in {"fetch", "convert"} =>
               log[n].file # MetaJar_filename(r.jar, "jar")
    /\ VersionsOf(meta_json, r.file_id) = VersionsOf(start.meta, r.file_id)
    /\ VersionsOf(meta, r.file_id) = VersionsOf(start.meta, r.file_id)
    /\ RecordAt(jars_json.versions, r.id, r.key) = RecordAt(start.jars.versions, r.id, r.key)
    /\ Calls("Jars.load") # {} =>
           RecordAt(jars.versions, r.id, r.key) = RecordAt(start.jars.versions, r.id, r.key)
    /\ RecordAt(index_json.mappings, r.jar.version_id, r.key)
           = RecordAt(start.index.mappings, r.jar.version_id, r.key)
    /\ Calls("Index.load") # {} =>
           RecordAt(index.mappings, r.jar.version_id, r.key)
               = RecordAt(start.index.mappings, r.jar.version_id, r.key)

InRun == pc \notin {"idle"}

\* C5 as claimed: in a run in which a version's descriptor file has the content
\* hash the MetaStore recorded, nothing is fetched or converted for that version
\* and none of its Meta, Artifact and Index records changes, whatever state the
\* stores were left in.
C5_HashGatedShortCircuit_Claimed ==
    InRun => \A i \in UnchangedVersions : \A r \in VersionRecords(i) : Untouched(r)

\* r2 is reconciled against the same ArtifactRecord as r, or into the same file
SharesArtifact(r, r2) ==
    \/ r.id = r2.id /\ r.key = r2.key
    \/ MetaJar_filename(r.jar, "jar") = MetaJar_filename(r2.jar, "jar")

\* when the run began, every MetaRecord the run's MetaStore holds for r's
\* artifact had its ArtifactRecord and IndexRecord, with the MetaRecord's hash
AlreadyMaterialized(r) ==
    \A r2 \in MetaRecords(meta) :
        SharesArtifact(r, r2) =>
            Materialized(start.jars, r2) /\ Indexed(start.jars, start.index, r2)

\* C5 amended: the short-circuit holds for the artifacts that were already
\* materialized when the run began.
C5_HashGatedShortCircuit ==
    InRun => \A i \in UnchangedVersions : \A r \in VersionRecords(i) :
                 AlreadyMaterialized(r) => Untouched(r)

\* the four identity fields of a MetaRecord or an IndexRecord
IdentityOf(rec) ==
    <<rec.version_id, rec.version_file_id, rec.version_release_time,
      IF "key" \in DOMAIN rec THEN rec.key ELSE rec.jar_key>>

\* the record the last record-level call was made on, as the call left it
Subject == IF u_last.op = "MetaJar.update" THEN u_meta_jar ELSE u_mapping

IdentityMismatch ==
    /\ u_last.op \in {"MetaJar.update", "IndexMapping.update"}
    /\ u_last.arg_identity # IdentityOf(u_last.before)

\* C6: MetaJar.update and IndexMapping.update called with an input whose version
\* id, version-file id, release time or key differs from the record's raise, and
\* the record is then field for field what it was before the call.
C6_IdentityImmutable ==
    IdentityMismatch => u_last.err /\ Subject = u_last.before

\* a MetaRecord was reconciled with an input of another identity that also
\* carries another hash
C6_Witness ==
    /\ IdentityMismatch
    /\ u_last.op = "MetaJar.update"
    /\ u_last.arg_sha1 # u_last.before.sha1

\* the keys of an ordered map are in ascending lexical order
KeysAscending(d) ==
    \A i \in 1..Len(d) : \A j \in 1..Len(d) : i < j => LexRank(d[i].k) < LexRank(d[j].k)

\* every inner map of a nested map has its keys in ascending order
InnerMapsSorted(outer) == \A i \in 1..Len(outer) : KeysAscending(outer[i].v)

\* the last call of this run was `name`, and it returned dirty
ReturnedDirty(name) == Returned(name) /\ trace[Len(trace)].ret

Meta_inner_sorted ==
    ReturnedDirty("Meta.pull_and_update") =>
        \A i \in 1..Len(meta.minecraft) : KeysAscending(meta.minecraft[i].jars)

Jars_inner_sorted == ReturnedDirty("jars.update") => InnerMapsSorted(jars.versions)

Index_inner_sorted == ReturnedDirty("index.update") => InnerMapsSorted(index.mappings)

\* C7: after an update of the MetaStore, the ArtifactStore or the IndexStore that
\* returned dirty, every inner map (artifact kind -> record) of that store has
\* its keys in ascending lexical order, also when a kind was added to a version
\* that already had records.
C7_InnerMapsSorted ==
    /\ Meta_inner_sorted
    /\ Jars_inner_sorted
    /\ Index_inner_sorted

\* the release times recorded by the records of one version of a nested map
TimesOf(inner) == { inner[i].v.version_release_time : i \in 1..Len(inner) }

\* no version of the nested map stands before a version all of whose records
\* carry a later release time
OuterNonIncreasing(outer) ==
    \A i \in 1..Len(outer) : \A j \in 1..Len(outer) :
        i < j => ~(\A ti \in TimesOf(outer[i].v) : \A tj \in TimesOf(outer[j].v) : ti < tj)
                 \/ TimesOf(outer[i].v) = {} \/ TimesOf(outer[j].v) = {}

Meta_outer_sorted ==
    ReturnedDirty("Meta.pull_and_update") =>
        \A i \in 1..Len(meta.minecraft) : \A j \in 1..Len(meta.minecraft) :
            i < j => meta.minecraft[i].release_time >= meta.minecraft[j].release_time

Jars_outer_sorted == ReturnedDirty("jars.update") => OuterNonIncreasing(jars.versions)

Index_outer_sorted == ReturnedDirty("index.update") => OuterNonIncreasing(index.mappings)

\* C8: after an update of the MetaStore, the ArtifactStore or the IndexStore that
\* returned dirty, the versions of that store stand in order of non-increasing
\* release time.
C8_OuterSorted ==
    /\ Meta_outer_sorted
    /\ Jars_outer_sorted
    /\ Index_outer_sorted

\* the last call on the artifact went past the comparison of the recorded hash
JarCalled ==
    /\ u_last.op \in {"JarsJar.update", "JarsJar.from_meta_jar"}
    /\ u_last.meta_jar.sha1 # u_last.before.jar_sha1_meta

\* ... and fetched the archive
Downloaded ==
    /\ JarCalled
    /\ NeedsDownload(u_last.before, u_last.meta_jar, u_last.fs_before)
    /\ u_last.w.fetch[u_last.meta_jar.url] # FetchError

\* the bytes the last call opened as a zip container
Inspected ==
    IF ~JarCalled THEN Absent
    ELSE IF Downloaded THEN u_last.w.fetch[u_last.meta_jar.url]
    ELSE IF NeedsDownload(u_last.before, u_last.meta_jar, u_last.fs_before) THEN Absent
    ELSE u_last.fs_before[u_last.before.jar_filename]

CanonicalFile == u_last.before.jar_filename
BundleFile == with_suffix(u_last.before.jar_filename, "bundle.jar")
MappingFile == u_last.before.map_filename

\* the call opened an archive whose manifest names two inner versions
MultiVersionBundle == JarCalled /\ Inspected = "BM"

\* C9 as claimed: on a manifest of more than one version JarsJar.update raises,
\* the canonical archive path holds no bytes written by the call and the
\* record's hashes are not updated.
C9_MultiVersionRejected_Claimed ==
    MultiVersionBundle =>
        /\ u_last.r.err
        /\ u_last.r.self = u_last.before
        /\ u_fs[CanonicalFile] = u_last.fs_before[CanonicalFile]

\* C9 amended: on a manifest of more than one version JarsJar.update raises and
\* the record is unchanged; nothing is renamed, unwrapped or converted, so the
\* bundle-suffixed file and the mapping file are as before; the canonical path
\* holds the rejected bundle when the call fetched it (it is written before it
\* is inspected) and its earlier bytes otherwise.
C9_MultiVersionRejected ==
    MultiVersionBundle =>
        /\ u_last.r.err /\ u_last.r.raised = "versions.list"
        /\ u_last.r.self = u_last.before
        /\ u_fs[BundleFile] = u_last.fs_before[BundleFile]
        /\ u_fs[MappingFile] = u_last.fs_before[MappingFile]
        /\ u_fs[CanonicalFile] =
              IF Downloaded THEN "BM" ELSE u_last.fs_before[CanonicalFile]
        /\ \A i \in 1..Len(u_last.r.events) : u_last.r.events[i].op = "fetch"

\* a two-version bundle was fetched over other bytes and rejected
C9_Witness ==
    /\ MultiVersionBundle
    /\ Downloaded
    /\ u_last.fs_before[CanonicalFile] \notin {Absent, "BM"}

\* the call opened a bundle of one inner version and returned
SingleVersionUnwrapped ==
    /\ JarCalled
    /\ Inspected = "B2"
    /\ ~u_last.r.err

\* C10: after JarsJar.update unwrapped a one-version bundle, the bundle-suffixed
\* file holds the bundle and the canonical file the inner archive; the same call
\* made again with the same MetaRecord fetches, unwraps and renames nothing and
\* leaves the record and the files as they are, whatever the fetcher, mapping-io
\* and the disk would answer.
C10_UnwrapIdempotent ==
    SingleVersionUnwrapped =>
        /\ u_fs[BundleFile] = "B2"
        /\ u_fs[CanonicalFile] = InnerJar("B2")
        /\ \A w \in UnitWorlds :
               LET again == JarsJar_update(u_last.r.self, u_last.meta_jar, u_fs, w)
               IN  /\ ~again.err /\ ~again.dirty
                   /\ again.events = << >>
                   /\ again.self = u_last.r.self
                   /\ again.fs = u_fs

\* a fetched one-version bundle was unwrapped and its record persisted
C10_Witness ==
    /\ SingleVersionUnwrapped
    /\ Downloaded
    /\ u_jar = u_last.r.self
    /\ \E i \in 1..Len(u_last.r.events) : u_last.r.events[i].op = "rename"

\* every MetaRecord of the persisted stores s has its ArtifactRecord and its
\* IndexRecord, with the MetaRecord's hash
ConvergedAt(s) ==
    \A r \in MetaRecords(s.meta) : Materialized(s.jars, r) /\ Indexed(s.jars, s.index, r)

\* the MetaRecords this run loaded for which the descriptor file, otherwise
\* the same, now declares another hash
HashChanged ==
    { r \in MetaRecords(start.meta) :
        /\ r.file_id \in DOMAIN upstream.files
        /\ upstream.files[r.file_id].id = r.id
        /\ upstream.files[r.file_id].releaseTime = r.jar.version_release_time
        /\ r.key \in DOMAIN upstream.files[r.file_id].downloads
        /\ upstream.files[r.file_id].downloads[r.key].sha1 # r.jar.sha1 }

\* the download entry the descriptor file now declares for MetaRecord r
Declared(r) == upstream.files[r.file_id].downloads[r.key]

\* the positions of this run's log at which `op` was done to r's archive
EventsFor(op, r) ==
    { i \in 1..Len(log) : log[i].op = op /\ log[i].file = MetaJar_filename(r.jar, "jar") }

MetaPropagated(r) ==
    /\ \E i \in Calls("Meta.pull_and_update") : trace[i].ret
    /\ \E r2 \in MetaRecords(meta_json) :
          r2.file_id = r.file_id /\ r2.key = r.key /\ r2.jar.sha1 = Declared(r).sha1

JarsPropagated(r) ==
    /\ \E i \in Calls("jars.update") : trace[i].ret
    /\ RecordAt(jars_json.versions, r.id, r.key) # << >>
    /\ RecordAt(jars_json.versions, r.id, r.key)[1].jar_sha1_meta = Declared(r).sha1
    /\ RecordAt(jars_json.versions, r.id, r.key)[1].jar_sha1_local
          = Sha1(fs[MetaJar_filename(r.jar, "jar")])
    /\ Cardinality(EventsFor("convert", r)) = 1

FetchedOnce(r) ==
    /\ Cardinality(EventsFor("fetch", r)) = 1
    /\ \A i \in EventsFor("fetch", r) : log[i].url = Declared(r).url

IndexPropagated(r) ==
    /\ \E i \in Calls("index.update") : trace[i].ret
    /\ RecordAt(index_json.mappings, r.id, r.key) # << >>
    /\ RecordAt(index_json.mappings, r.id, r.key)[1].jar_sha1_meta = Declared(r).sha1
    /\ RecordAt(index_json.mappings, r.id, r.key)[1].path
          = RecordAt(start.index.mappings, r.id, r.key)[1].path
    /\ RecordAt(index_json.mappings, r.id, r.key)[1].url
          = RecordAt(start.index.mappings, r.id, r.key)[1].url

\* a run that began with converged stores has returned without error
RunFromConverged == pc = "exit" /\ ConvergedAt(start)

C11_meta == RunFromConverged => \A r \in HashChanged : MetaPropagated(r)
C11_jars == RunFromConverged => \A r \in HashChanged : JarsPropagated(r)
C11_fetch == RunFromConverged => \A r \in HashChanged : FetchedOnce(r)
C11_index == RunFromConverged => \A r \in HashChanged : IndexPropagated(r)

\* C11: a run that starts from converged stores in which an artifact has hash
\* H1, while the descriptor declares H2 # H1 for it, ends with the MetaRecord at
\* H2, the ArtifactRecord at H2 after exactly one fetch from the declared URL and
\* one conversion, its local hash recomputed, and the IndexRecord at H2 with
\* path and URL unchanged; each of the three updates returned dirty.
C11_HashChangePropagates ==
    /\ C11_meta
    /\ C11_jars
    /\ C11_fetch
    /\ C11_index

\* the content hash of a file of the artifact's directory, "" if it does not exist
HashOf(file) == IF u_fs[file] = Absent THEN "" ELSE Sha1(u_fs[file])

\* the last call on the artifact returned and recorded its MetaRecord's hash
Recorded == JarCalled /\ ~u_last.r.err

\* C12: whenever JarsJar.update or JarsJar.from_meta_jar returns without error
\* having recorded the upstream hash H, the canonical archive file or the
\* bundle-suffixed file has content hash H, whatever the fetcher returned.
C12_ArchiveMatchesDeclaredHash ==
    Recorded =>
        /\ u_last.r.self.jar_sha1_meta = u_last.meta_jar.sha1
        /\ \/ HashOf(CanonicalFile) = u_last.meta_jar.sha1
           \/ HashOf(BundleFile) = u_last.meta_jar.sha1

\* Meta.pull_and_update is the last call this run made (returned or raised)
PullCalled == trace # << >> /\ trace[Len(trace)].call = "Meta.pull_and_update"

\* every descriptor file has its version entry, with the file's content hash
AllFilesReconciled ==
    \A f \in DOMAIN upstream.files :
        \E i \in 1..Len(meta.minecraft) :
            /\ meta.minecraft[i].file_id = f
            /\ meta.minecraft[i].sha1 = DescSha1(upstream.files[f])

\* C13: Meta.pull_and_update with the pulled commit equal to the stored one
\* returns not dirty and leaves the commit and every version record as loaded;
\* with another commit it stores the new commit, reconciles every descriptor
\* file and returns dirty, also when no version record changed.
C13_PullAndUpdate ==
    PullCalled =>
        IF meta_json.commit = upstream.commit
        THEN pc = "exit" /\ ~trace[Len(trace)].ret /\ meta = meta_json
        ELSE /\ meta.commit = upstream.commit
             /\ pc # "aborted" =>
                    /\ trace[Len(trace)].ret
                    /\ pc = "meta.save"
                    /\ AllFilesReconciled

\* the pulled commit is new, yet every version record is as it was loaded
C13_Witness ==
    /\ PullCalled
    /\ pc # "aborted"
    /\ meta_json.commit # upstream.commit
    /\ meta.minecraft = meta_json.minecraft
    /\ meta.minecraft # << >>

\* the last call was JarsJar.update with the hash the record already records
SameHashCall ==
    /\ u_last.op = "JarsJar.update"
    /\ u_last.meta_jar.sha1 = u_last.before.jar_sha1_meta

\* C14: JarsJar.update with a MetaRecord whose hash equals the recorded upstream
\* hash returns not dirty, fetches and converts nothing, touches no file and
\* leaves the record as it is, whatever the local files hold.
C14_NoOpOnSameHash ==
    SameHashCall =>
        /\ ~u_last.r.err /\ ~u_last.r.dirty
        /\ u_last.r.events = << >>
        /\ u_last.r.self = u_last.before
        /\ u_jar = u_last.before
        /\ u_fs = u_last.fs_before

\* such a call was made while the canonical file no longer holds the archive
\* whose hash the record keeps as its local hash
C14_Witness ==
    /\ SameHashCall
    /\ HashOf(CanonicalFile) # u_last.before.jar_sha1_local

\* a call did `op` among its steps
Did(events, op) == \E i \in 1..Len(events) : events[i].op = op

\* the last call ran mapping-io, and mapping-io exited non-zero
ConversionFailed ==
    /\ JarCalled
    /\ Did(u_last.r.events, "convert")
    /\ u_fs[CanonicalFile] \in u_last.w.conv_fail

\* C15: when mapping-io exits non-zero during JarsJar.update the call raises and
\* the record keeps its upstream hash and its local hash; a later JarsJar.update
\* with the same MetaRecord is therefore no no-op: unless it fails before it gets
\* there, it runs the conversion again.
C15_ConversionFailureLeavesRecordStale ==
    ConversionFailed =>
        /\ u_last.r.err /\ u_last.r.raised = "mapping-io"
        /\ u_last.r.self = u_last.before
        /\ u_last.op = "JarsJar.update" => u_jar = u_last.before
        /\ \A w \in UnitWorlds :
               LET again == JarsJar_update(u_last.r.self, u_last.meta_jar, u_fs, w)
               IN  \/ Did(again.events, "convert")
                   \/ again.raised \in {"requests", "zip", "versions.list", "write"}

\* mapping-io failed on an archive fetched for a record that had hashes before
C15_Witness ==
    /\ ConversionFailed
    /\ u_last.op = "JarsJar.update"
    /\ u_last.before.jar_sha1_local # ""
    /\ Did(u_last.r.events, "fetch")

\* the ArtifactRecords of the ArtifactStore in file j, in any order
ArtifactRecords(j) == { AllValues(j.versions)[i] : i \in 1..Len(AllValues(j.versions)) }

\* the IndexRecords of index x
IndexRecords(x) == { AllValues(x.mappings)[i] : i \in 1..Len(AllValues(x.mappings)) }

\* index x has, under the version id and kind of ArtifactRecord jar, a record with
\* jar's upstream hash and mapping path
Mirrors(x, jar) ==
    /\ Has(x.mappings, jar.version_id)
    /\ Has(Get(x.mappings, jar.version_id), jar.jar_key)
    /\ Get(Get(x.mappings, jar.version_id), jar.jar_key).jar_sha1_meta = jar.jar_sha1_meta
    /\ Get(Get(x.mappings, jar.version_id), jar.jar_key).path = map_path(jar)

Index_projection ==
    Returned("index.update") =>
        /\ \A jar \in ArtifactRecords(jars_json) : Mirrors(index, jar)
        /\ \A m \in IndexRecords(index) : m.url = UrlOf(m.path)

\* the step of Index.update writes no file and adds nothing to the log of fetches
\* and conversions
Index_update_is_local == pc = "index.update" => fs' = fs /\ log' = log

\* C16: Index is a pure projection of the ArtifactStore: after Index.update returns
\* without error every ArtifactRecord of the loaded ArtifactStore has an IndexRecord
\* under the same (version id, artifact kind) with its upstream hash and mapping
\* path, every IndexRecord's URL is the base URL, "/" and its path, and
\* Index.update fetches nothing and runs no subprocess.
C16_IndexIsProjection == []Index_projection /\ [][Index_update_is_local]_vars

\* every key of the outer map of ArtifactStore j has a record that
\* get_version_release_time finds
Jars_lookup_total(j) ==
    \A i \in 1..Len(j.versions) :
        Jars_get_version_release_time(j, j.versions[i].k).found

Index_lookup_total(x) ==
    \A i \in 1..Len(x.mappings) :
        Index_get_version_release_time(x, x.mappings[i].k).found

\* Jars.update is about to run: whatever the fetcher does, when its loops end
\* dirty the re-sort finds a release time for every key
Jars_sort_finds_all ==
    pc = "jars.update" =>
        \A w \in PipelineWorlds :
            \E r \in {Jars_update_versions(jars, reversed(meta_json.minecraft), fs, w,
                                           FALSE, << >>)} :
                (~r.err /\ r.dirty) => Jars_lookup_total(r.self)

Index_sort_finds_all ==
    pc = "index.update" =>
        \E r \in {Index_update_loop(index, AllValues(jars_json.versions), FALSE)} :
            (~r.err /\ r.dirty) => Index_lookup_total(r.self)

\* C17: the release-time lookup of the outer re-sort never fails: at the end of
\* Jars.update and of Index.update get_version_release_time finds a record for
\* every key of the outer map, whatever the MetaStore holds, a version without
\* any allow-listed artifact kind included.
C17_ReleaseTimeLookupNeverFails == Jars_sort_finds_all /\ Index_sort_finds_all

\* the ArtifactRecord that Jars.update creates from, or updates against,
\* MetaRecord r: self.versions[mc_version.id][jar_name]
ReconciledWith(j, r) == Get(Get(j.versions, r.id), r.key)

\* C18: version id and version-file id are never conflated in the ArtifactStore:
\* after Jars.update has gone through the MetaStore, every ArtifactRecord has the
\* version-file id of every MetaRecord it was created from or updated against, so
\* MetaRecords of two versions with one version id and different version-file ids
\* are never reconciled into one ArtifactRecord.
C18_FileIdNeverConflated ==
    Returned("jars.update") =>
        \A r \in MetaRecords(meta_json) :
            /\ Has(jars.versions, r.id)
            /\ Has(Get(jars.versions, r.id), r.key)
            /\ ReconciledWith(jars, r).version_file_id = r.jar.version_file_id

\* every MetaJar of MetaStore m carries the version id, version-file id and
\* release time of the MetaVersion it is stored under
IdentityConsistent(m) ==
    \A i \in 1..Len(m.minecraft) :
        \A j \in 1..Len(m.minecraft[i].jars) :
            LET version == m.minecraft[i]
                jar == version.jars[j].v
            IN  /\ jar.version_id = version.id
                /\ jar.version_file_id = version.file_id
                /\ jar.version_release_time = version.release_time

\* C20: identity consistency inside the MetaStore: after Meta.update calls that
\* returned without error, every MetaJar stored under a MetaVersion carries that
\* MetaVersion's version id, version-file id and release time, also when a
\* descriptor file was amended in place (its id, its release time or its set of
\* artifact kinds changed).
C20_MetaStoreIdentityConsistent ==
    (Returned("Meta.pull_and_update") \/ pc = "idle") =>
        IdentityConsistent(meta) /\ IdentityConsistent(meta_json)

\* the last call found the files as an interrupted unwrap leaves them (the bundle
\* renamed aside, the inner bytes never written) and its hash gate was open
InterruptedUnwrap ==
    /\ JarCalled
    /\ u_last.fs_before[CanonicalFile] = Absent
    /\ u_last.fs_before[BundleFile] # Absent

\* during the last call the fetcher served the bundle again, mapping-io exited
\* zero and the write of the inner bytes went through
BundleServedAgain ==
    /\ u_last.w.fetch[u_last.meta_jar.url] = u_last.fs_before[BundleFile]
    /\ u_last.w.conv_fail = {}
    /\ ~u_last.w.write_inner_fails

\* C19: recovery from an interrupted unwrap: with the canonical archive file
\* missing and the bundle-variant file present, the next JarsJar.update whose
\* MetaRecord hash differs from the recorded one (its collaborators working: the
\* bundle is served again, the conversion succeeds) completes without error, and
\* ends with the inner archive at the canonical path, the bundle at the
\* bundle-variant path and the record's upstream hash updated.
C19_RecoversFromInterruptedUnwrap ==
    (InterruptedUnwrap /\ BundleServedAgain) =>
        /\ ~u_last.r.err /\ u_last.r.dirty
        /\ u_fs[CanonicalFile] = InnerJar(u_last.fs_before[BundleFile])
        /\ u_fs[BundleFile] = u_last.fs_before[BundleFile]
        /\ u_fs[MappingFile] = u_fs[CanonicalFile]
        /\ u_last.r.self.jar_sha1_meta = u_last.meta_jar.sha1
        /\ u_last.r.self.jar_sha1_local = Sha1(u_fs[CanonicalFile])

\* the recovery where only a fetch can help: the bundle set aside has the declared
\* hash, the persisted record an older one
C19_Witness ==
    /\ InterruptedUnwrap /\ BundleServedAgain
    /\ u_last.op = "JarsJar.update"
    /\ Sha1(u_last.fs_before[BundleFile]) = u_last.meta_jar.sha1
    /\ ~u_last.r.err
====
